---- MODULE Spec2Model ----
(***************************************************************************)
(* cluster::members_manager: joining the cluster through the seed servers, *)
(* serving and forwarding join requests, and propagating a raft0 group     *)
(* configuration to the allocator, the per-shard members_table and the     *)
(* connection cache.                                                       *)
(***************************************************************************)
EXTENDS Integers, Sequences, FiniteSets, TLC

\* ---------------------------------------------------------------- bounds
MaxId == 3
MaxLen == 3

MaxRounds == 3
NumShards == 2

\* ------------------------------------------------------------- constants
Self == 1
LocalShard == 1
NoLeader == 0

Ids == 1..MaxId
Shards == 1..NumShards
\* rpc addresses a broker may be configured with: broker 2 can move
AddrsOf(i) == IF i = 2 THEN {1, 2} ELSE {1}
Slots == {"start", "apply"}
Callers == {"dispatcher", "rpc"}

\* model::broker: node id and rpc address
Broker(i, a) == [id |-> i, addr |-> a]

NodeIds(bs) == {b.id : b \in bs}

\* raft::group_configuration: a set of brokers with pairwise distinct ids
Configs ==
    {c \in SUBSET UNION {{Broker(i, a) : a \in AddrsOf(i)} : i \in Ids} :
        c # {} /\ \A x, y \in c : x.id = y.id => x = y}

NoCfg == {}

SeedLists == {<<1, 2, 3>>, <<2, 3>>}

VARIABLES
    seed_servers,   \* _seed_servers: the ids of the seed list, in order
    goodSeed,       \* environment: the remote seed that accepts the join (0: none)
    goodRound,      \* environment: the round from which goodSeed accepts
    leaderId,       \* _raft0->get_leader_id(), NoLeader when none
    raftCfg,        \* _raft0->config(): the brokers of the group configuration
    started,        \* start() was called
    gateClosed,     \* _gate is closed
    gateCount,      \* holders of _gate (the background join task)
    stopPc,         \* "none", "closing" (stop() waits for the gate), "returned"
    aborted,        \* _as.local() abort was requested
    jpc,            \* position of the background join task
    it,             \* seed_iterator of the running round, 1..Len+1
    round,          \* rounds of seed dispatch started so far
    roundRes,       \* result<join_reply> of the last finished round
    abortInWait,    \* history: the abort was requested during a backoff wait
    tried,          \* history: the join attempts of the running round, in order
    closedAtRound,  \* history: the rounds started when stop() closed the gate
    hjr,            \* handle_join_request invocations, one per caller
    allocator,      \* node ids the partition_allocator contains
    regCount,       \* history: register_node calls issued per node id
    registry,       \* members_table of each shard: its brokers
    clients,        \* connection_cache: the brokers a client is open to
    upd,            \* handle_raft0_cfg_update invocations, one per entry point
    lastCfg,        \* history: configuration of the last completed update
    lastDone,       \* history: the update that completed last, no other
                    \* having begun since ("none" otherwise)
    dq,             \* a call of the broker diff: its lists and its patch
    at              \* a call of ssx::async_transform

joinVars == <<seed_servers, goodSeed, goodRound, leaderId, raftCfg, started,
              gateClosed, gateCount, stopPc, aborted, jpc, it, round, roundRes,
              abortInWait, tried, closedAtRound, hjr>>
cfgVars == <<allocator, regCount, registry, clients, upd, lastCfg, lastDone>>
pureVars == <<dq, at>>
vars == <<seed_servers, goodSeed, goodRound, leaderId, raftCfg, started,
          gateClosed, gateCount, stopPc, aborted, jpc, it, round, roundRes,
          abortInWait, tried, closedAtRound, hjr, allocator, regCount, registry, clients,
          upd, lastCfg, lastDone, dq, at>>

\* ----------------------------------------------------- result<join_reply>
\* "reply_true"/"reply_false": a join_reply value; the errc names: an error
\* result; "exception": a failed future.
RpcOutcomes == {"reply_true", "reply_false", "rpc_error", "exception"}
Failures == {"reply_false", "rpc_error", "exception"}

has_value(r) == r \in {"reply_true", "reply_false"}

\* the join RPC of a remote seed: goodSeed accepts from round goodRound on,
\* every other attempt fails in one of the three ways
JoinOutcomes(seed, r) ==
    IF seed = goodSeed /\ r >= goodRound THEN {"reply_true"} ELSE Failures

\* _raft0->is_leader(): the consensus layer reports this node as the leader
is_leader == leaderId = Self

is_already_member == Self \in NodeIds(raftCfg)

\* ------------------------------------------------- configuration update
EmptyPatch == [additions |-> <<>>, deletions |-> <<>>]

IdleUpd ==
    [pc |-> "idle", cfg |-> NoCfg, diff |-> EmptyPatch, pend |-> {},
     k |-> 1, j |-> 1, regs |-> {}, sdiff |-> {}, changed |-> {},
     calls |-> <<>>, R |-> {}, alone |-> FALSE, repeat |-> FALSE,
     ran |-> {}, cl |-> {}, had |-> {}, result |-> "none"]

InFlight(u) == upd[u].pc \notin {"idle", "done"}

\* a broker set as a list, in id order (cfg.for_each, m.all_brokers())
RECURSIVE ListOf(_)
ListOf(bs) ==
    IF bs = {} THEN <<>>
    ELSE LET b == CHOOSE x \in bs : \A y \in bs : x.id <= y.id
         IN <<b>> \o ListOf(bs \ {b})

Range(list) == {list[n] : n \in 1..Len(list)}

\* cluster::calculate_changed_brokers(new_list, old_list): compared by id
\* mutant: the lists are compared position by position, as if both held
\* their brokers in the same order
calculate_changed_brokers_positional(new_list, old_list) ==
    LET pos(list, b) == CHOOSE n \in 1..Len(list) : list[n] = b
        added(b) == \/ pos(new_list, b) > Len(old_list)
                    \/ old_list[pos(new_list, b)].id # b.id
        removed(b) == \/ pos(old_list, b) > Len(new_list)
                      \/ new_list[pos(old_list, b)].id # b.id
    IN [additions |-> SelectSeq(new_list, added),
        deletions |-> SelectSeq(old_list, removed)]

\* mutant: a broker is the same only if its id and its address both agree
calculate_changed_brokers_by_value(new_list, old_list) ==
    LET added(b) == b \notin Range(old_list)
        removed(b) == b \notin Range(new_list)
    IN [additions |-> SelectSeq(new_list, added),
        deletions |-> SelectSeq(old_list, removed)]

calculate_changed_brokers(new_list, old_list) ==
    LET added(b) == b.id \notin NodeIds(Range(old_list))
        removed(b) == b.id \notin NodeIds(Range(new_list))
    IN [additions |-> SelectSeq(new_list, added),
        deletions |-> SelectSeq(old_list, removed)]

\* mutant: the two lists are passed in the other order
calculate_brokers_diff_swapped(m, cfg) ==
    LET new_list == ListOf(cfg)
        old_list == ListOf(m)
    IN calculate_changed_brokers(old_list, new_list)

\* calculate_brokers_diff(m, cfg): m is the members_table's broker set
calculate_brokers_diff(m, cfg) ==
    LET new_list == ListOf(cfg)
        old_list == ListOf(m)
    IN calculate_changed_brokers(new_list, old_list)

\* members_table::update_brokers(patch)
update_brokers(m, patch) ==
    {b \in m : b.id \notin NodeIds(Range(patch.deletions))
               /\ b.id \notin NodeIds(Range(patch.additions))}
    \cup Range(patch.additions)

\* remove_broker_client(cache, id)
remove_broker_client(cache, id) == {b \in cache : b.id # id}

\* update_broker_client(cache, id, addr)
update_broker_client(cache, id, addr) ==
    {b \in cache : b.id # id} \cup {Broker(id, addr)}

\* handle_raft0_cfg_update(cfg) up to its first suspension: the allocator
\* shard is asked to register the nodes
handle_raft0_cfg_update(u, cfg) ==
    [IdleUpd EXCEPT
        !.pc = "alloc", !.cfg = cfg, !.R = registry[LocalShard],
        !.cl = clients,
        !.alone = (\A v \in Slots \ {u} : ~InFlight(v))
                  /\ (\A s \in Shards : registry[s] = registry[LocalShard]),
        !.repeat = (\A v \in Slots \ {u} : ~InFlight(v)) /\ lastCfg = cfg,
        !.result = "pending"]

\* --------------------------------------------------------- join dispatch
IdleHjr ==
    [pc |-> "idle", broker |-> 0, ldr |-> NoLeader, known |-> FALSE,
     leaderPath |-> FALSE, rpcs |-> 0, leaderOut |-> "none",
     result |-> "none"]

\* mutant: the leader id is not looked up in the configuration
dispatch_rpc_to_leader_unchecked ==
    IF leaderId = NoLeader
    THEN [issued |-> FALSE, result |-> "no_leader_controller"]
    ELSE [issued |-> TRUE, result |-> "pending"]

\* dispatch_rpc_to_leader: whether with_client is reached, else the error
dispatch_rpc_to_leader ==
    IF leaderId = NoLeader
    THEN [issued |-> FALSE, result |-> "no_leader_controller"]
    ELSE IF leaderId \notin NodeIds(raftCfg)
    THEN [issued |-> FALSE, result |-> "no_leader_controller"]
    ELSE [issued |-> TRUE, result |-> "pending"]

\* mutant: the failed future of the forwarded RPC is passed on
handle_exception_missing(out) == out

\* .handle_exception of handle_join_request: a failed future of the
\* forwarded RPC becomes join_request_dispatch_error
handle_exception(out) ==
    IF out = "exception" THEN "join_request_dispatch_error" ELSE out

\* handle_join_request(broker) up to its first suspension
handle_join_request(b) ==
    IF is_leader
    THEN [IdleHjr EXCEPT !.pc = "add_group_member", !.broker = b,
            !.ldr = leaderId, !.known = leaderId \in NodeIds(raftCfg),
            !.leaderPath = TRUE, !.result = "pending"]
    ELSE LET d == dispatch_rpc_to_leader
         IN [IdleHjr EXCEPT
                !.pc = IF d.issued THEN "join_rpc" ELSE "done",
                !.broker = b, !.ldr = leaderId,
                !.known = leaderId \in NodeIds(raftCfg),
                !.rpcs = IF d.issued THEN 1 ELSE 0,
                !.result = d.result]

\* start(): launch the join task unless already a member, then apply the
\* current raft0 configuration
start ==
    /\ ~started
    /\ started' = TRUE
    /\ IF ~is_already_member /\ ~gateClosed
       THEN /\ gateCount' = gateCount + 1
            /\ jpc' = "dispatch"
            /\ it' = 1
            /\ round' = 1
       ELSE UNCHANGED <<gateCount, jpc, it, round>>
    /\ upd' = [upd EXCEPT !["start"] = handle_raft0_cfg_update("start", raftCfg)]
    /\ lastDone' = "none"
    /\ UNCHANGED <<seed_servers, goodSeed, goodRound, leaderId, raftCfg,
                   gateClosed, closedAtRound, stopPc, aborted, roundRes, abortInWait, tried, hjr,
                   allocator, regCount, registry, clients, lastCfg>>
    /\ UNCHANGED pureVars

\* stop(): _gate.close()
stop ==
    /\ stopPc = "none"
    /\ gateClosed' = TRUE
    /\ closedAtRound' = round
    /\ stopPc' = "closing"
    /\ UNCHANGED <<seed_servers, goodSeed, goodRound, leaderId, raftCfg,
                   started, gateCount, aborted, jpc, it, round, roundRes,
                   abortInWait, tried, hjr>>
    /\ UNCHANGED cfgVars
    /\ UNCHANGED pureVars

\* mutant: stop() returns without waiting for the holders of the gate
stop_returns_nowait ==
    /\ stopPc = "closing"
    /\ stopPc' = "returned"
    /\ UNCHANGED <<seed_servers, goodSeed, goodRound, leaderId, raftCfg,
                   started, gateClosed, closedAtRound, gateCount, aborted, jpc, it, round,
                   roundRes, abortInWait, tried, hjr>>
    /\ UNCHANGED cfgVars
    /\ UNCHANGED pureVars

\* the future of _gate.close() resolves once no holder is left
stop_returns ==
    /\ stopPc = "closing"
    /\ gateCount = 0
    /\ stopPc' = "returned"
    /\ UNCHANGED <<seed_servers, goodSeed, goodRound, leaderId, raftCfg,
                   started, gateClosed, closedAtRound, gateCount, aborted, jpc, it, round,
                   roundRes, abortInWait, tried, hjr>>
    /\ UNCHANGED cfgVars
    /\ UNCHANGED pureVars

\* the process-wide abort source is signalled
request_abort ==
    /\ ~aborted
    /\ aborted' = TRUE
    /\ abortInWait' = (jpc = "sleep")
    /\ UNCHANGED <<seed_servers, goodSeed, goodRound, leaderId, raftCfg,
                   started, gateClosed, closedAtRound, gateCount, stopPc, jpc, it, round,
                   roundRes, tried, hjr>>
    /\ UNCHANGED cfgVars
    /\ UNCHANGED pureVars

\* mutant: the seed under the iterator is never taken for the local node
seed_is_local_never(n) == FALSE

\* it->id() == _self.id(): the seed under the iterator is the local node
seed_is_local(n) == seed_servers[n] = Self

\* dispatch_join_to_seed_server(it) up to the join attempt it issues
dispatch_join_to_seed_server ==
    /\ jpc = "dispatch"
    /\ IF it = Len(seed_servers) + 1
       THEN /\ roundRes' = "seed_servers_exhausted"
            /\ jpc' = "check"
            /\ hjr' = hjr
            /\ tried' = tried
       ELSE IF seed_is_local(it)
       THEN /\ hjr' = [hjr EXCEPT !["dispatcher"] = handle_join_request(Self)]
            /\ jpc' = "local"
            /\ roundRes' = roundRes
            /\ tried' = Append(tried, <<"local", seed_servers[it]>>)
       ELSE /\ jpc' = "rpc"
            /\ tried' = Append(tried, <<"rpc", seed_servers[it]>>)
            /\ UNCHANGED <<hjr, roundRes>>
    /\ UNCHANGED <<seed_servers, goodSeed, goodRound, leaderId, raftCfg,
                   started, gateClosed, closedAtRound, gateCount, stopPc, aborted, it, round,
                   abortInWait>>
    /\ UNCHANGED cfgVars
    /\ UNCHANGED pureVars

\* the then_wrapped continuation of dispatch_join_to_seed_server
seed_continuation(r) ==
    IF has_value(r)
    THEN /\ roundRes' = r
         /\ jpc' = "check"
         /\ it' = it
    ELSE /\ it' = it + 1
         /\ jpc' = "dispatch"
         /\ roundRes' = roundRes

\* dispatch_join_to_remote resolves
join_rpc_reply ==
    /\ jpc = "rpc"
    /\ \E out \in JoinOutcomes(seed_servers[it], round) : seed_continuation(out)
    /\ UNCHANGED <<seed_servers, goodSeed, goodRound, leaderId, raftCfg,
                   started, gateClosed, closedAtRound, gateCount, stopPc, aborted, round,
                   abortInWait, tried, hjr>>
    /\ UNCHANGED cfgVars
    /\ UNCHANGED pureVars

\* the local handle_join_request(_self) resolves
local_join_done ==
    /\ jpc = "local"
    /\ hjr["dispatcher"].pc = "done"
    /\ seed_continuation(hjr["dispatcher"].result)
    /\ hjr' = [hjr EXCEPT !["dispatcher"] = IdleHjr]
    /\ UNCHANGED <<seed_servers, goodSeed, goodRound, leaderId, raftCfg,
                   started, gateClosed, closedAtRound, gateCount, stopPc, aborted, round,
                   abortInWait, tried>>
    /\ UNCHANGED cfgVars
    /\ UNCHANGED pureVars

\* mutant: the loop does not look at the gate
gate_is_closed_unchecked == FALSE

\* _gate.is_closed()
gate_is_closed == gateClosed

\* join_raft0: the continuation of a round inside ss::repeat
join_raft0 ==
    /\ jpc = "check"
    /\ IF roundRes = "reply_true" \/ gate_is_closed \/ is_already_member
       THEN /\ jpc' = "done"
            /\ gateCount' = gateCount - 1
       ELSE /\ jpc' = "sleep"
            /\ gateCount' = gateCount
    /\ UNCHANGED <<seed_servers, goodSeed, goodRound, leaderId, raftCfg,
                   started, gateClosed, closedAtRound, stopPc, aborted, it, round, roundRes,
                   abortInWait, tried, hjr>>
    /\ UNCHANGED cfgVars
    /\ UNCHANGED pureVars

\* wait_for_next_join_retry resolves: the 5 s elapsed, or sleep_aborted was
\* thrown and swallowed; either way ss::repeat runs the next round. The
\* rounds are counted up to MaxRounds, and past it for a wait the closing
\* gate found in progress.
wait_for_next_join_retry ==
    /\ jpc = "sleep"
    /\ round < MaxRounds \/ gateClosed
    /\ jpc' = "dispatch"
    /\ it' = 1
    /\ round' = round + 1
    /\ tried' = <<>>
    /\ UNCHANGED <<seed_servers, goodSeed, goodRound, leaderId, raftCfg,
                   started, gateClosed, closedAtRound, gateCount, stopPc, aborted, roundRes,
                   abortInWait, hjr>>
    /\ UNCHANGED cfgVars
    /\ UNCHANGED pureVars

\* an inbound join RPC is served by handle_join_request
handle_join_request_rpc ==
    /\ hjr["rpc"].pc \in {"idle", "done"}
    /\ \E b \in Ids \ {Self} :
          hjr' = [hjr EXCEPT !["rpc"] = handle_join_request(b)]
    /\ UNCHANGED <<seed_servers, goodSeed, goodRound, leaderId, raftCfg,
                   started, gateClosed, closedAtRound, gateCount, stopPc, aborted, jpc, it,
                   round, roundRes, abortInWait, tried>>
    /\ UNCHANGED cfgVars
    /\ UNCHANGED pureVars

\* _raft0->add_group_member resolves or fails
add_group_member_done(c) ==
    /\ hjr[c].pc = "add_group_member"
    /\ \/ /\ hjr' = [hjr EXCEPT ![c].pc = "done", ![c].result = "reply_true"]
          /\ raftCfg' = IF hjr[c].broker \in NodeIds(raftCfg) THEN raftCfg
                        ELSE raftCfg \cup {Broker(hjr[c].broker, 1)}
       \/ /\ hjr' = [hjr EXCEPT ![c].pc = "done", ![c].result = "exception"]
          /\ raftCfg' = raftCfg
    /\ UNCHANGED <<seed_servers, goodSeed, goodRound, leaderId, started,
                   gateClosed, closedAtRound, gateCount, stopPc, aborted, jpc, it, round,
                   roundRes, abortInWait, tried>>
    /\ UNCHANGED cfgVars
    /\ UNCHANGED pureVars

\* the join RPC forwarded to the leader resolves
leader_join_reply(c) ==
    /\ hjr[c].pc = "join_rpc"
    /\ \E out \in RpcOutcomes :
          hjr' = [hjr EXCEPT ![c].pc = "done", ![c].leaderOut = out,
                             ![c].result = handle_exception(out)]
    /\ UNCHANGED <<seed_servers, goodSeed, goodRound, leaderId, raftCfg,
                   started, gateClosed, closedAtRound, gateCount, stopPc, aborted, jpc, it,
                   round, roundRes, abortInWait, tried>>
    /\ UNCHANGED cfgVars
    /\ UNCHANGED pureVars

\* the consensus layer elects another leader, or loses it
leader_change ==
    /\ \E l \in {NoLeader} \cup Ids : l # leaderId /\ leaderId' = l
    /\ UNCHANGED <<seed_servers, goodSeed, goodRound, raftCfg, started,
                   gateClosed, closedAtRound, gateCount, stopPc, aborted, jpc, it, round,
                   roundRes, abortInWait, tried, hjr>>
    /\ UNCHANGED cfgVars
    /\ UNCHANGED pureVars

\* ------------------------------------------- configuration update steps
\* the invocation in slot u moves to rec; a finished one is remembered
Continue(u, rec) ==
    /\ upd' = [upd EXCEPT ![u] = rec]
    /\ lastCfg' = IF rec.pc = "done" THEN rec.cfg ELSE lastCfg
    /\ lastDone' = IF rec.pc = "done" THEN u ELSE lastDone

\* update_connections has nothing left to do: the update resolves
Settle(rec) ==
    IF rec.pc = "conn" /\ rec.k > Len(rec.diff.deletions)
                       /\ rec.j > Len(rec.diff.additions)
    THEN [rec EXCEPT !.pc = "done", !.result = "success"]
    ELSE rec

\* apply_update(b): decode the record, then handle_raft0_cfg_update; the log
\* applier awaits the returned future before it applies the next record
apply_update(b) ==
    /\ started
    /\ upd["apply"].pc \in {"idle", "done"}
    /\ IF b.valid
       THEN upd' = [upd EXCEPT
                       !["apply"] = handle_raft0_cfg_update("apply", b.cfg)]
       ELSE upd' = [upd EXCEPT
                       !["apply"] = [IdleUpd EXCEPT !.pc = "done",
                                                    !.result = "exception"]]
    /\ lastDone' = "none"
    /\ UNCHANGED <<allocator, regCount, registry, clients, lastCfg>>
    /\ UNCHANGED joinVars
    /\ UNCHANGED pureVars

\* mutant: the allocator is not asked whether it knows the node
contains_node_unchecked(n) == FALSE

\* allocator.contains_node(n.id())
contains_node(n) == n \in allocator

\* the lambda run on the allocator shard: register_node for each node of the
\* configuration the allocator does not contain
allocator_register(u) ==
    /\ upd[u].pc = "alloc"
    /\ LET regs == {n \in NodeIds(upd[u].cfg) : ~contains_node(n)}
       IN /\ allocator' = allocator \cup regs
          /\ regCount' = [n \in Ids |-> IF n \in regs THEN regCount[n] + 1
                                                     ELSE regCount[n]]
          /\ Continue(u, [upd[u] EXCEPT !.pc = "diff", !.regs = regs,
                                        !.had = allocator])
    /\ UNCHANGED <<registry, clients>>
    /\ UNCHANGED joinVars
    /\ UNCHANGED pureVars

\* the continuation on the invoking shard: its diff, then invoke_on_all
broadcast_begin(u) ==
    /\ upd[u].pc = "diff"
    /\ Continue(u, [upd[u] EXCEPT
                       !.pc = "bcast",
                       !.diff = calculate_brokers_diff(registry[LocalShard],
                                                       upd[u].cfg),
                       !.pend = Shards])
    /\ UNCHANGED <<allocator, regCount, registry, clients>>
    /\ UNCHANGED joinVars
    /\ UNCHANGED pureVars

\* the lambda of invoke_on_all on shard s; after the last shard
\* update_connections starts
update_brokers_on_shard(u, s) ==
    /\ upd[u].pc = "bcast"
    /\ s \in upd[u].pend
    /\ LET d == calculate_brokers_diff(registry[s], upd[u].cfg)
           m == update_brokers(registry[s], d)
           rec == [upd[u] EXCEPT
                      !.pend = @ \ {s},
                      !.ran = @ \cup {s},
                      !.sdiff = IF d = EmptyPatch THEN @ ELSE @ \cup {s},
                      !.changed = IF m = registry[s] THEN @ ELSE @ \cup {s},
                      !.pc = IF upd[u].pend = {s} THEN "conn" ELSE "bcast"]
       IN /\ registry' = [registry EXCEPT ![s] = m]
          /\ Continue(u, Settle(rec))
    /\ UNCHANGED <<allocator, regCount, clients>>
    /\ UNCHANGED joinVars
    /\ UNCHANGED pureVars

\* update_connections: remove_broker_client of the next deletion
close_client(u) ==
    /\ upd[u].pc = "conn"
    /\ upd[u].k <= Len(upd[u].diff.deletions)
    /\ LET id == upd[u].diff.deletions[upd[u].k].id
           rec == [upd[u] EXCEPT !.calls = Append(@, <<"close", id>>)]
       IN \/ /\ clients' = remove_broker_client(clients, id)
             /\ Continue(u, Settle([rec EXCEPT !.k = @ + 1]))
          \/ /\ clients' = clients
             /\ Continue(u, [rec EXCEPT !.pc = "done", !.result = "exception"])
    /\ UNCHANGED <<allocator, regCount, registry>>
    /\ UNCHANGED joinVars
    /\ UNCHANGED pureVars

\* mutant: the local broker is treated like any other addition
skip_local_broker_never(b) == FALSE

\* mutant: the comparison with the local id is inverted
skip_local_broker_inverted(b) == b.id # Self

\* update_connections: no client is created to the local broker
skip_local_broker(b) == b.id = Self

\* mutant: the additions loop does not wait for the deletions loop
deletions_done_unchecked(rec) == TRUE

\* the .then after do_for_each(diff.deletions): every deletion has resolved
deletions_done(rec) == rec.k > Len(rec.diff.deletions)

\* update_connections: the next addition, skipped when it is the local broker
open_client(u) ==
    /\ upd[u].pc = "conn"
    /\ deletions_done(upd[u])
    /\ upd[u].j <= Len(upd[u].diff.additions)
    /\ LET b == upd[u].diff.additions[upd[u].j]
           rec == [upd[u] EXCEPT !.calls = Append(@, <<"open", b.id>>)]
       IN IF skip_local_broker(b)
          THEN /\ clients' = clients
               /\ Continue(u, Settle([upd[u] EXCEPT !.j = @ + 1]))
          ELSE \/ /\ clients' = update_broker_client(clients, b.id, b.addr)
                  /\ Continue(u, Settle([rec EXCEPT !.j = @ + 1]))
               \/ /\ clients' = clients
                  /\ Continue(u, [rec EXCEPT !.pc = "done",
                                             !.result = "exception"])
    /\ UNCHANGED <<allocator, regCount, registry>>
    /\ UNCHANGED joinVars
    /\ UNCHANGED pureVars

UpdateSteps ==
    \E u \in Slots :
        \/ allocator_register(u)
        \/ broadcast_begin(u)
        \/ \E s \in Shards : update_brokers_on_shard(u, s)
        \/ close_client(u)
        \/ open_client(u)

\* a record batch of the replicated log: a configuration, or bytes that do
\* not decode
Batches ==
    {[valid |-> TRUE, cfg |-> c] : c \in Configs}
    \cup {[valid |-> FALSE, cfg |-> NoCfg]}

Quiescent == \A u \in Slots : ~InFlight(u)

\* no diff call and no async_transform call in progress
IdleDq == [pc |-> "idle", via |-> "none", new_list |-> <<>>,
           old_list |-> <<>>, out |-> EmptyPatch]

IdleAt == [pc |-> "idle", input |-> <<>>, inflight |-> FALSE,
           invoked |-> <<>>, res |-> <<>>, failed |-> 0, result |-> "none"]

InitCfgVars ==
    /\ allocator = {}
    /\ regCount = [n \in Ids |-> 0]
    /\ registry = [s \in Shards |-> {}]
    /\ clients = {}
    /\ upd = [u \in Slots |-> IdleUpd]
    /\ lastCfg = NoCfg
    /\ lastDone = "none"
    /\ dq = IdleDq
    /\ at = IdleAt

InitJoin ==
    /\ seed_servers \in SeedLists
    /\ goodSeed \in {0} \cup ({seed_servers[n] : n \in 1..Len(seed_servers)} \ {Self})
    /\ goodRound \in 1..(MaxRounds - 1)
    /\ goodSeed = 0 => goodRound = 1
    /\ leaderId = NoLeader
    /\ raftCfg \in {{Broker(2, 1)}, {Broker(1, 1), Broker(2, 1)}}
    /\ started = FALSE
    /\ gateClosed = FALSE
    /\ closedAtRound = 0
    /\ gateCount = 0
    /\ stopPc = "none"
    /\ aborted = FALSE
    /\ jpc = "idle"
    /\ it = 1
    /\ round = 0
    /\ roundRes = "none"
    /\ abortInWait = FALSE
    /\ tried = <<>>
    /\ hjr = [c \in Callers |-> IdleHjr]
    /\ InitCfgVars

NextJoin ==
    \/ start
    \/ stop
    \/ stop_returns
    \/ request_abort
    \/ dispatch_join_to_seed_server
    \/ join_rpc_reply
    \/ local_join_done
    \/ join_raft0
    \/ wait_for_next_join_retry
    \/ \E c \in Callers : add_group_member_done(c)
    \/ \E c \in Callers : leader_join_reply(c)
    \/ leader_change
    \/ allocator_register("start")
    \/ broadcast_begin("start")
    \/ \E s \in Shards : update_brokers_on_shard("start", s)
    \/ open_client("start")

SpecJoin == InitJoin /\ [][NextJoin]_vars

\* every join attempt completes, every continuation of the join task runs,
\* the backoff timer fires and the future of _gate.close() resolves when it
\* can; stop(), the abort signal and leader changes are free
JoinFairness ==
    /\ WF_vars(dispatch_join_to_seed_server)
    /\ WF_vars(join_rpc_reply)
    /\ WF_vars(local_join_done)
    /\ WF_vars(add_group_member_done("dispatcher"))
    /\ WF_vars(leader_join_reply("dispatcher"))
    /\ WF_vars(join_raft0)
    /\ WF_vars(wait_for_next_join_retry)
    /\ WF_vars(stop_returns)

SpecJoinLive == SpecJoin /\ JoinFairness

\* join requests of other nodes served while the leadership moves
InitHandle ==
    /\ seed_servers = <<1, 2, 3>>
    /\ goodSeed = 0
    /\ goodRound = 1
    /\ leaderId = NoLeader
    /\ raftCfg \in {{Broker(1, 1)}, {Broker(1, 1), Broker(2, 1)}}
    /\ started = FALSE
    /\ gateClosed = FALSE
    /\ closedAtRound = 0
    /\ gateCount = 0
    /\ stopPc = "none"
    /\ aborted = FALSE
    /\ jpc = "idle"
    /\ it = 1
    /\ round = 0
    /\ roundRes = "none"
    /\ abortInWait = FALSE
    /\ tried = <<>>
    /\ hjr = [c \in Callers |-> IdleHjr]
    /\ InitCfgVars

NextHandle ==
    \/ handle_join_request_rpc
    \/ add_group_member_done("rpc")
    \/ leader_join_reply("rpc")
    \/ leader_change

SpecHandle == InitHandle /\ [][NextHandle]_vars

\* the node restarts as a member: no join task, configurations are applied
\* one after the other
InitCfg ==
    /\ seed_servers = <<1, 2, 3>>
    /\ goodSeed = 0
    /\ goodRound = 1
    /\ leaderId = NoLeader
    /\ raftCfg \in {{Broker(1, 1)}, {Broker(1, 1), Broker(2, 1)}}
    /\ started = FALSE
    /\ gateClosed = FALSE
    /\ closedAtRound = 0
    /\ gateCount = 0
    /\ stopPc = "none"
    /\ aborted = FALSE
    /\ jpc = "idle"
    /\ it = 1
    /\ round = 0
    /\ roundRes = "none"
    /\ abortInWait = FALSE
    /\ tried = <<>>
    /\ hjr = [c \in Callers |-> IdleHjr]
    /\ InitCfgVars

NextCfg ==
    \/ start
    \/ \E b \in Batches : Quiescent /\ apply_update(b)
    \/ UpdateSteps

SpecCfg == InitCfg /\ [][NextCfg]_vars

\* the update of start() and the update of one apply_update, each going on
\* from its suspension points whenever it can: nothing in members_manager
\* makes one wait for the other
InitOverlap ==
    /\ seed_servers = <<1, 2, 3>>
    /\ goodSeed = 0
    /\ goodRound = 1
    /\ leaderId = NoLeader
    /\ raftCfg \in {{Broker(i, 1) : i \in 1..n} : n \in 2..MaxId}
    /\ started = FALSE
    /\ gateClosed = FALSE
    /\ closedAtRound = 0
    /\ gateCount = 0
    /\ stopPc = "none"
    /\ aborted = FALSE
    /\ jpc = "idle"
    /\ it = 1
    /\ round = 0
    /\ roundRes = "none"
    /\ abortInWait = FALSE
    /\ tried = <<>>
    /\ hjr = [c \in Callers |-> IdleHjr]
    /\ InitCfgVars

NextOverlap ==
    \/ start
    \/ \E b \in Batches : upd["apply"].pc = "idle" /\ apply_update(b)
    \/ UpdateSteps

SpecOverlap == InitOverlap /\ [][NextOverlap]_vars

\* ------------------------------------------------------- the broker diff
\* every broker the model knows, and every list of brokers with distinct ids
AllBrokers == UNION Configs

BrokerLists ==
    {l \in UNION {[1..n -> AllBrokers] : n \in 0..MaxId} :
        \A m, n \in 1..Len(l) : l[m].id = l[n].id => m = n}

\* calculate_changed_brokers on two lists in whatever order they come
calculate_changed_brokers_call(new_list, old_list) ==
    /\ dq.pc = "idle"
    /\ dq' = [pc |-> "done", via |-> "lists", new_list |-> new_list,
              old_list |-> old_list,
              out |-> calculate_changed_brokers(new_list, old_list)]
    /\ UNCHANGED <<joinVars, cfgVars, at>>

\* calculate_brokers_diff on a members table content and a configuration
calculate_brokers_diff_call(m, cfg) ==
    /\ dq.pc = "idle"
    /\ dq' = [pc |-> "done", via |-> "members_table", new_list |-> ListOf(cfg),
              old_list |-> ListOf(m), out |-> calculate_brokers_diff(m, cfg)]
    /\ UNCHANGED <<joinVars, cfgVars, at>>

InitDiff == InitCfg

NextDiff ==
    \/ \E new_list, old_list \in BrokerLists :
          calculate_changed_brokers_call(new_list, old_list)
    \/ \E m \in Configs \cup {NoCfg}, cfg \in Configs :
          calculate_brokers_diff_call(m, cfg)

SpecDiff == InitDiff /\ [][NextDiff]_vars

\* --------------------------------------------------- ssx::async_transform
\* the values of a range, and the ranges async_transform is given
Values == 1..MaxLen

Ranges == UNION {[1..n -> Values] : n \in 0..MaxLen}

\* the caller's function: the value its future resolves with
func(val) == <<"r", val>>

\* do_for_each over [begin, end) has no element left: .then hands out res
transform_resolves(a) ==
    IF a.pc = "running" /\ ~a.inflight /\ Len(a.res) = Len(a.input)
    THEN [a EXCEPT !.pc = "done", !.result = "value"]
    ELSE a

\* async_transform(begin, end, func) up to its first suspension
async_transform(input) ==
    /\ at.pc = "idle"
    /\ at' = transform_resolves([IdleAt EXCEPT !.pc = "running",
                                               !.input = input,
                                               !.result = "pending"])
    /\ UNCHANGED <<joinVars, cfgVars, dq>>

\* mutant: the next task is started without waiting for the previous one
previous_resolved_unchecked(a) == TRUE

\* do_for_each goes to the next element once the future of the previous
\* one has resolved
previous_resolved(a) == ~a.inflight

\* futurize_invoke(func, val) on the next element of the range
func_invoke ==
    /\ at.pc = "running"
    /\ previous_resolved(at)
    /\ Len(at.invoked) < Len(at.input)
    /\ at' = [at EXCEPT !.invoked = Append(@, at.input[Len(at.invoked) + 1]),
                        !.inflight = TRUE]
    /\ UNCHANGED <<joinVars, cfgVars, dq>>

\* the task's future resolves: .then pushes its value to the back of res
func_resolves ==
    /\ at.pc = "running"
    /\ at.inflight
    /\ at' = transform_resolves(
                 [at EXCEPT !.res = Append(@, func(at.input[Len(at.res) + 1])),
                            !.inflight = FALSE])
    /\ UNCHANGED <<joinVars, cfgVars, dq>>

\* the task throws or its future fails: do_for_each resolves with the
\* exception and the .then that returns res is skipped
func_fails ==
    /\ at.pc = "running"
    /\ at.inflight
    /\ at' = [at EXCEPT !.pc = "done", !.result = "exception",
                        !.failed = Len(at.res) + 1, !.inflight = FALSE]
    /\ UNCHANGED <<joinVars, cfgVars, dq>>

InitAsync == InitCfg

NextAsync ==
    \/ \E input \in Ranges : async_transform(input)
    \/ func_invoke
    \/ func_resolves
    \/ func_fails

SpecAsync == InitAsync /\ [][NextAsync]_vars

\* ================================================================ claims

\* C1: once the abort signal was raised during the backoff wait, the join
\* task is either still unwinding from that wait or terminated; it starts no
\* new round and issues no further join attempt.
C1_AbortInWaitStartsNoRound ==
    abortInWait => jpc \in {"sleep", "done"}

\* C2: a round ends either with an accepted join or, every other outcome of
\* a seed (RPC error, reply with success=false, error result) having moved it
\* to the next seed, with seed_servers_exhausted after the last seed.
C2_FailureAdvancesToNextSeed ==
    jpc = "check" =>
        \/ roundRes = "reply_true"
        \/ /\ roundRes = "seed_servers_exhausted"
           /\ it = Len(seed_servers) + 1

\* C3: when one seed accepts the join from its k-th round on, every other
\* attempt fails and nothing is cancelled, the dispatcher succeeds within k
\* rounds and issues no join attempt after the accepted one.
C3_SucceedsWithinKRounds ==
    (goodSeed # 0 /\ ~aborted /\ ~gateClosed) =>
        /\ round <= goodRound
        /\ roundRes = "reply_true" => jpc \in {"check", "done"}

\* C4: when every seed always fails, each backoff wait follows one full pass
\* over all the seeds, and the join task ends only when it is cancelled (or
\* the node has become a member).
C4_FullPassThenWaitForever ==
    goodSeed = 0 =>
        /\ jpc = "sleep" => it = Len(seed_servers) + 1
        /\ jpc = "done" =>
              gateClosed \/ is_already_member \/ roundRes = "reply_true"

\* C5: stop() closes the gate, and once it has returned the background join
\* task has unwound: it holds the gate no more and no join attempt, local or
\* by RPC, is in progress or will be issued.
C5_NoJoinWorkAfterStop ==
    /\ stopPc # "none" => gateClosed
    /\ stopPc = "returned" =>
          /\ gateCount = 0
          /\ jpc \in {"idle", "done"}
          /\ hjr["dispatcher"].pc = "idle"

\* C5 witness: stop() returned after a join task that was running was ended
\* by the closed gate alone.
C5_Witness ==
    /\ stopPc = "returned"
    /\ jpc = "done"
    /\ round >= 1
    /\ roundRes # "reply_true"
    /\ ~is_already_member

\* C6: apply_update resolves to a result code, never to an exception.
C6_ApplyUpdateReturnsCode ==
    upd["apply"].pc = "done" =>
        upd["apply"].result \in {"success", "error_code"}

\* C7: a handle_join_request that is not served as leader, with the leader
\* resolved, sends one join RPC to the leader and returns what that RPC
\* returned, except that a failed RPC future is returned as
\* join_request_dispatch_error; it never sends a second RPC and never fails
\* with an exception.
C7_ForwardOnceRelayResult ==
    \A c \in Callers :
        (hjr[c].pc # "idle" /\ ~hjr[c].leaderPath) =>
            /\ hjr[c].rpcs <= 1
            /\ hjr[c].result # "exception"
            /\ (hjr[c].ldr # NoLeader /\ hjr[c].known) => hjr[c].rpcs = 1
            /\ (hjr[c].pc = "done" /\ hjr[c].rpcs = 1) =>
                  hjr[c].result =
                      IF hjr[c].leaderOut = "exception"
                      THEN "join_request_dispatch_error"
                      ELSE hjr[c].leaderOut

\* C7 witness: the forwarded RPC failed with an exception and the caller got
\* join_request_dispatch_error.
C7_Witness ==
    \E c \in Callers :
        /\ hjr[c].pc = "done"
        /\ ~hjr[c].leaderPath
        /\ hjr[c].rpcs = 1
        /\ hjr[c].leaderOut = "exception"
        /\ hjr[c].result = "join_request_dispatch_error"

\* C8: when no leader id is reported, or the reported id is not among the
\* nodes of the configuration, dispatch_rpc_to_leader resolves at once to
\* no_leader_controller and no RPC is issued.
C8_NoLeaderNoRpc ==
    \A c \in Callers :
        (hjr[c].pc # "idle" /\ ~hjr[c].leaderPath
            /\ (hjr[c].ldr = NoLeader \/ ~hjr[c].known)) =>
            /\ hjr[c].pc = "done"
            /\ hjr[c].rpcs = 0
            /\ hjr[c].leaderOut = "none"
            /\ hjr[c].result = "no_leader_controller"

\* C8 witness: a leader id was reported that the configuration does not hold.
C8_Witness ==
    \E c \in Callers :
        /\ hjr[c].pc = "done"
        /\ hjr[c].ldr # NoLeader
        /\ ~hjr[c].known
        /\ hjr[c].result = "no_leader_controller"

\* C9: an update with the configuration of the update completed just before
\* it computes an empty diff on the invoking shard and on every shard,
\* changes no registry, registers no node and issues no connection call.
C9_SameConfigTwiceIsIdempotent ==
    \A u \in Slots :
        upd[u].repeat =>
            /\ upd[u].diff = EmptyPatch
            /\ upd[u].sdiff = {}
            /\ upd[u].changed = {}
            /\ upd[u].regs = {}
            /\ upd[u].calls = <<>>

\* C9 witness: the second application of a configuration of two or more
\* brokers has completed.
C9_Witness ==
    /\ upd["apply"].pc = "done"
    /\ upd["apply"].repeat
    /\ upd["apply"].result = "success"
    /\ Cardinality(upd["apply"].cfg) >= 2

CallIds(calls, kind) ==
    {calls[n][2] : n \in {m \in 1..Len(calls) : calls[m][1] = kind}}

\* C10: when an update of configuration C, started with every shard holding
\* R and no other update in flight, has resolved, every shard holds exactly
\* the ids of C, the allocator contains every id of C, close_client was
\* issued once for each id of R not in C and for no other, and open_client
\* once for each id of C not in R other than the local node's and for no
\* other.
C10_UpdateAppliesExactDiff ==
    \A u \in Slots :
        (lastDone = u /\ upd[u].alone /\ upd[u].result = "success") =>
            LET C == NodeIds(upd[u].cfg)
                R == NodeIds(upd[u].R)
            IN /\ \A s \in Shards : NodeIds(registry[s]) = C
               /\ C \subseteq allocator
               /\ CallIds(upd[u].calls, "close") = R \ C
               /\ CallIds(upd[u].calls, "open") = (C \ R) \ {Self}
               /\ Len(upd[u].calls) =
                     Cardinality(R \ C) + Cardinality((C \ R) \ {Self})

\* C10 witness: a completed update that removed a broker and added two, one
\* of them the local node.
C10_Witness ==
    /\ lastDone = "apply"
    /\ upd["apply"].alone
    /\ upd["apply"].result = "success"
    /\ NodeIds(upd["apply"].R) \ NodeIds(upd["apply"].cfg) # {}
    /\ Self \in NodeIds(upd["apply"].cfg) \ NodeIds(upd["apply"].R)
    /\ Cardinality(NodeIds(upd["apply"].cfg) \ NodeIds(upd["apply"].R)) >= 2

\* C11: the diff holds as additions exactly the brokers whose id is in the
\* new list and not in the old one, as deletions exactly those whose id is in
\* the old list and not in the new one; the two are disjoint by id and
\* applying them to the old ids gives the ids of the new list. It holds for
\* any two lists and for the lists calculate_brokers_diff builds from the
\* members table (old) and the incoming configuration (new).
C11_DiffIsExactByIds ==
    dq.pc = "done" =>
        LET new_ids == NodeIds(Range(dq.new_list))
            old_ids == NodeIds(Range(dq.old_list))
            add_ids == NodeIds(Range(dq.out.additions))
            del_ids == NodeIds(Range(dq.out.deletions))
        IN /\ Range(dq.out.additions) =
                   {b \in Range(dq.new_list) : b.id \notin old_ids}
           /\ Range(dq.out.deletions) =
                   {b \in Range(dq.old_list) : b.id \notin new_ids}
           /\ Len(dq.out.additions) = Cardinality(add_ids)
           /\ Len(dq.out.deletions) = Cardinality(del_ids)
           /\ add_ids \cap del_ids = {}
           /\ (old_ids \ del_ids) \cup add_ids = new_ids

C11_Witness ==
    /\ dq.pc = "done"
    /\ dq.via = "members_table"
    /\ dq.out.additions # <<>>
    /\ dq.out.deletions # <<>>
    /\ \E b \in Range(dq.new_list) : b.id \in NodeIds(Range(dq.old_list))

\* the list with the ids of a list, in id order and with the first address
CanonicalList(list) == ListOf({Broker(i, 1) : i \in NodeIds(Range(list))})

\* C12: the diff of a list with itself, in any two orders, is empty; and the
\* ids the diff adds and deletes depend on the ids of the two lists only,
\* not on the order of either list nor on anything else a broker carries.
C12_DiffDependsOnIdSetsOnly ==
    dq.pc = "done" =>
        LET ref == calculate_changed_brokers(CanonicalList(dq.new_list),
                                             CanonicalList(dq.old_list))
        IN /\ NodeIds(Range(dq.out.additions)) = NodeIds(Range(ref.additions))
           /\ NodeIds(Range(dq.out.deletions)) = NodeIds(Range(ref.deletions))
           /\ Range(dq.new_list) = Range(dq.old_list) => dq.out = EmptyPatch

C12_Witness ==
    /\ dq.pc = "done"
    /\ Len(dq.new_list) > 1
    /\ Range(dq.new_list) = Range(dq.old_list)
    /\ dq.new_list # dq.old_list
    /\ dq.out = EmptyPatch

\* C13: update_connections never issues open_client for the local node's id
\* and the connection layer never holds a client to it, whatever the
\* sequence of updates; every addition it has gone past, other than the
\* local node, did get its open_client.
C13_NoClientToLocalNode ==
    /\ Self \notin NodeIds(clients)
    /\ \A u \in Slots :
          /\ Self \notin CallIds(upd[u].calls, "open")
          /\ \A n \in 1..Len(upd[u].diff.additions) :
                (n < upd[u].j /\ upd[u].diff.additions[n].id # Self) =>
                    upd[u].diff.additions[n].id \in CallIds(upd[u].calls, "open")

\* C13 witness: a completed update whose additions held the local node and
\* another broker, with the other broker's client opened.
C13_Witness ==
    \E u \in Slots :
        /\ upd[u].pc = "done"
        /\ upd[u].result = "success"
        /\ Self \in NodeIds(Range(upd[u].diff.additions))
        /\ upd[u].j > Len(upd[u].diff.additions)
        /\ CallIds(upd[u].calls, "open") # {}
        /\ clients # {}

\* the seeds a join RPC was sent to, in the order of the attempts
RpcAttempts(log) ==
    LET is_rpc(t) == t[1] = "rpc"
        rpcs == SelectSeq(log, is_rpc)
    IN [n \in 1..Len(rpcs) |-> rpcs[n][2]]

\* C14: the attempts of a round are the seeds of the list from its first, in
\* list order and once each; the local seed is handed to the local
\* handle_join_request and gets no join RPC; once a seed has answered with
\* success no further seed is tried. With seeds [1 (local), 2, 3], seed 1
\* and seed 2 failing and seed 3 accepting, the round that succeeds has sent
\* exactly two join RPCs, to 2 and then to 3.
C14_SeedsInOrderOncePerRound ==
    /\ Len(tried) <= Len(seed_servers)
    /\ \A n \in 1..Len(tried) :
          tried[n] = <<IF seed_servers[n] = Self THEN "local" ELSE "rpc",
                       seed_servers[n]>>
    /\ Self \notin Range(RpcAttempts(tried))
    /\ (jpc \in {"check", "sleep", "done"} /\ roundRes = "reply_true") =>
          Len(tried) = it
    /\ (seed_servers = <<1, 2, 3>> /\ jpc = "done" /\ roundRes = "reply_true"
          /\ it = 3) =>
          RpcAttempts(tried) = <<2, 3>>

\* C14 witness: seeds [1, 2, 3] with no leader known, the first round ended
\* with success at seed 3 after the local attempt and the RPC to seed 2
\* failed.
C14_Witness ==
    /\ seed_servers = <<1, 2, 3>>
    /\ leaderId = NoLeader
    /\ goodSeed = 3
    /\ jpc = "done"
    /\ roundRes = "reply_true"
    /\ Len(tried) = 3
    /\ round = 1

\* C15: when update_connections has ended, close_client was issued for every
\* deletion of the diff and open_client for every addition other than the
\* local node, whether or not one of these operations failed.
C15_ConnectionErrorsIsolatedPerBroker ==
    \A u \in Slots :
        (upd[u].pc = "done" /\ upd[u].calls # <<>>) =>
            /\ CallIds(upd[u].calls, "close") =
                   NodeIds(Range(upd[u].diff.deletions))
            /\ CallIds(upd[u].calls, "open") =
                   NodeIds(Range(upd[u].diff.additions)) \ {Self}

\* C16: within one update, the allocator knows every node of the
\* configuration before the registry of any shard is replaced; every shard
\* has had its registry replaced before the first close_client or
\* open_client; and no close_client comes after an open_client.
C16_StepsStrictlySequential ==
    \A u \in Slots :
        /\ upd[u].ran # {} => NodeIds(upd[u].cfg) \subseteq allocator
        /\ upd[u].calls # <<>> => upd[u].ran = Shards
        /\ \A m, n \in 1..Len(upd[u].calls) :
              (upd[u].calls[m][1] = "open" /\ upd[u].calls[n][1] = "close")
                  => n < m

\* C16 witness: a completed update that registered a node, replaced every
\* shard's registry and both closed and opened clients.
C16_Witness ==
    \E u \in Slots :
        /\ upd[u].pc = "done"
        /\ upd[u].result = "success"
        /\ upd[u].regs # {}
        /\ upd[u].ran = Shards
        /\ CallIds(upd[u].calls, "close") # {}
        /\ CallIds(upd[u].calls, "open") # {}

\* C17: async_transform invokes func on the elements of the range in range
\* order, on one element only after the future of the previous one has
\* resolved; the values pushed to the result are those of the elements in
\* input order and a returned vector has one value per element; when a task
\* fails the returned future fails and func is invoked on no later element.
C17_AsyncTransformSequential ==
    at.pc # "idle" =>
        /\ Len(at.invoked) <= Len(at.input)
        /\ at.invoked = SubSeq(at.input, 1, Len(at.invoked))
        /\ Len(at.res) <= Len(at.invoked)
        /\ Len(at.invoked) <= Len(at.res) + 1
        /\ at.inflight <=>
              (Len(at.invoked) = Len(at.res) + 1 /\ at.pc = "running")
        /\ at.res = [n \in 1..Len(at.res) |-> func(at.input[n])]
        /\ at.result = "value" => Len(at.res) = Len(at.input)
        /\ at.result = "exception" =>
              /\ at.pc = "done"
              /\ Len(at.invoked) = at.failed
              /\ Len(at.res) = at.failed - 1

\* C17 witness: a range of three elements whose second task failed after the
\* first resolved.
C17_Witness ==
    /\ at.pc = "done"
    /\ at.result = "exception"
    /\ Len(at.input) = MaxLen
    /\ at.failed = 2
    /\ Len(at.res) = 1

\* C18: register_node is issued only for node ids the allocator does not
\* contain: no id is ever registered twice, an update registers exactly the
\* ids of its configuration the allocator did not have, and an update whose
\* nodes were all known registers none.
C18_RegisterOnlyUnknownNodes ==
    /\ \A n \in Ids : regCount[n] = IF n \in allocator THEN 1 ELSE 0
    /\ \A u \in Slots :
          /\ upd[u].regs \cap upd[u].had = {}
          /\ upd[u].pc \notin {"idle", "alloc"} =>
                upd[u].regs = NodeIds(upd[u].cfg) \ upd[u].had
          /\ NodeIds(upd[u].cfg) \subseteq upd[u].had => upd[u].regs = {}

\* C18 witness: an update some of whose nodes the allocator had and some not
\* has run its registration step.
C18_Witness ==
    \E u \in Slots :
        /\ upd[u].pc \notin {"idle", "alloc"}
        /\ upd[u].regs # {}
        /\ NodeIds(upd[u].cfg) \cap upd[u].had # {}

\* C19: a handle_join_request that has resolved never hands its caller a
\* failed future: every failure, that of add_group_member on the leader
\* included, is an error code; and a failure is never reported as
\* join_reply{success = true}.
C19_JoinFailuresAreErrorCodes ==
    \A c \in Callers :
        hjr[c].pc = "done" =>
            /\ hjr[c].result # "exception"
            /\ hjr[c].result = "reply_true" =>
                  (hjr[c].leaderPath \/ hjr[c].leaderOut = "reply_true")

\* the brokers of the configuration of update u that the registry held at
\* another address when the update began
Moved(u) ==
    {b \in upd[u].cfg : \E b0 \in upd[u].R : b0.id = b.id /\ b0.addr # b.addr}

\* C20: a broker whose id stays and whose address changes is neither an
\* addition nor a deletion of the update's diff, update_connections issues
\* neither close_client nor open_client for it, and the connection layer
\* holds for it what it held when the update began: the client to the old
\* address.
C20_AddressChangeIsInvisible ==
    \A u \in Slots :
        ((InFlight(u) \/ lastDone = u) /\ upd[u].alone) =>
            \A b \in Moved(u) :
                /\ b.id \notin NodeIds(Range(upd[u].diff.additions))
                /\ b.id \notin NodeIds(Range(upd[u].diff.deletions))
                /\ b.id \notin CallIds(upd[u].calls, "close")
                /\ b.id \notin CallIds(upd[u].calls, "open")
                /\ {c \in clients : c.id = b.id} =
                       {c \in upd[u].cl : c.id = b.id}

\* C20 witness: a completed update moved a broker to which a client was
\* open; the client still points to the address the registry had.
C20_Witness ==
    \E u \in Slots :
        /\ lastDone = u
        /\ upd[u].alone
        /\ upd[u].result = "success"
        /\ \E b \in Moved(u) :
              \E c \in clients : c.id = b.id /\ c.addr # b.addr

\* C21: once the update of start() and an update of apply_update that
\* overlapped it have both completed, every shard's registry holds the ids
\* of the configuration delivered last (that of apply_update) and the peers
\* with an open client are exactly those ids without the local node's.
C21_OverlappingUpdatesConverge ==
    (\A u \in Slots : upd[u].pc = "done" /\ upd[u].result = "success") =>
        LET C == NodeIds(upd["apply"].cfg)
        IN /\ \A s \in Shards : NodeIds(registry[s]) = C
           /\ NodeIds(clients) = C \ {Self}

\* C22: once stop() has closed the gate the join task starts at most one
\* round more than it had started, and, every attempt completing, stop()
\* returns, whether or not the abort signal is raised and whatever the seeds
\* answer.
C22_StopReturnsAfterAtMostOneRound ==
    /\ [](gateClosed => round <= closedAtRound + 1)
    /\ (stopPc = "closing") ~> (stopPc = "returned")

\* C22 witness: stop() closed the gate during a backoff wait, the abort
\* signal was never raised, one further round ran with every seed failing,
\* and stop() returned.
C22_Witness ==
    /\ stopPc = "returned"
    /\ ~aborted
    /\ closedAtRound >= 1
    /\ round = closedAtRound + 1
    /\ jpc = "done"
    /\ roundRes = "seed_servers_exhausted"

====
